---- MODULE Spec2Model ----
(***************************************************************************)
(* A model of src/components/gallery/GalleryDisplayItem.js.                *)
(*                                                                         *)
(* The file holds two React components:                                    *)
(*   GalleryDisplayItem  the pin status of one media gallery item, derived *)
(*                       from the pinning manager, with a preload probe    *)
(*                       raced against a 10,000 ms timer;                  *)
(*   Recent              the list of recent parcels: one promise chain per *)
(*                       parcel of the page, collected with Promise.all,   *)
(*                       sorted and published.                             *)
(* The two components share no state.  Spec and FairSpec are the pin state *)
(* of GalleryDisplayItem alone and SpecGallery adds its Delete button;     *)
(* SpecRecent is Recent alone, over pages of parcels; SpecResolver is      *)
(* Recent over one page of one parcel, of every bid shape, while time      *)
(* passes; SpecRefetch is Recent with its refetch effect, from the first   *)
(* render.  Each leaves the other component's variables at their initial   *)
(* values.                                                                 *)
(***************************************************************************)
EXTENDS Integers, Sequences, FiniteSets, TLC

(***************************************************************************)
(* GalleryDisplayItem                                                      *)
(***************************************************************************)

\* The pin states, lines 15-18, and the initial useState(null) of line 29.
STATE_PINNED == 0
STATE_PINNING == 1
STATE_FAILED == 2
STATE_NOT_FOUND == 3
NO_PIN_STATE == -1

\* How many times the props (the pinning manager and what it reports) change.
MaxChanges == 2

VARIABLES
  pinningManager, \* the pinningManager prop is set (TRUE) or null (FALSE)
  pinned,         \* what pinningManager.isPinned(name) answers
  failedPins,     \* pinningManager.failedPins: [ref: the Set object, has: name is in it]
  pinState,       \* the pinState of useState, line 29
  mounted,        \* the component has rendered and run its effects once
  derivDeps,      \* the dependencies the effect of line 43 last ran with
  preloadDep,     \* the dependency (pinState) the effect of line 58 last ran with
  cycles,         \* one record per call of triggerPreload: its closure
  crashed,        \* an effect has thrown: React has unmounted the component
  changes,        \* the number of prop changes so far
  isRemoving,     \* the isRemoving of useState, line 28
  removal,        \* the call of removeMediaGalleryItem: where it is (pc) and the
                  \* pinningManager of its closure
  managerCalls    \* the calls made to the stream manager and the pinning manager

removeVars == <<isRemoving, removal, managerCalls>>

pinVars == <<pinningManager, pinned, failedPins, pinState, mounted, derivDeps,
             preloadDep, cycles, crashed, changes, removeVars>>

\* Recent
VARIABLES
  data,     \* the data of useQuery, line 247: [loaded, geoWebParcels]
  parcels,  \* the parcels of useState, line 245: [set, list]; null is set = FALSE
  batches,  \* one record per run of the effect of line 257 that got past line 265
  active,   \* the batch whose cleanup (line 359) React holds, or 0
  now,      \* Date.now(): an index into Clock
  calls,    \* the number of calls made to the license contracts and getParcelContent
  fetches,  \* the number of pages that have arrived
  shouldRefetch, \* the shouldRefetch prop: the state behind setShouldRefetch
  refetchDep,    \* the dependency the effect of line 364 last ran with: [ran, value]
  refetches,     \* the variables of each refetch call, line 369
  requests       \* the number of times the parent has set shouldRefetch

refetchVars == <<shouldRefetch, refetchDep, refetches, requests>>

recentVars == <<data, parcels, batches, active, now, calls, fetches, refetchVars>>

vars == <<pinVars, recentVars>>

\* line 40
isPinned == IF pinningManager THEN pinned ELSE FALSE

\* The dependency array of line 55.  Without a pinning manager line 41 makes
\* a new Set on every render, so the array never equals the one before.
observationDeps == <<pinningManager, failedPins.ref, isPinned>>

observationDepsChanged ==
  \/ ~mounted
  \/ ~pinningManager
  \/ observationDeps # derivDeps

\* The setPinState of the effect of lines 43-55, given the state rendered.
DerivePinState(ps) ==
  IF ~pinningManager THEN ps
  ELSE IF isPinned THEN STATE_PINNED
  ELSE IF failedPins.has THEN STATE_FAILED
  ELSE STATE_PINNING

\* The closure of a new triggerPreload call, lines 60-75: the success flag,
\* the preload promise and the timer.  gen is not in the code: it records
\* the prop changes seen when the closure was made.
NewCycle ==
  [success |-> FALSE, preload |-> "pending", timer |-> "pending", gen |-> changes]

\* The timer callback without its test of the flag, and with the test inverted.
TimerCallbackNoFlag(c) == STATE_NOT_FOUND

TimerCallbackInverted(c) ==
  IF cycles[c].success THEN STATE_NOT_FOUND ELSE pinState

\* The timer callback, lines 71-75: the pinState it leaves.
TimerCallback(c) ==
  IF ~cycles[c].success THEN STATE_NOT_FOUND ELSE pinState

\* The catch handler, lines 66-69: the pinState it leaves.
CatchCallback(c) == STATE_NOT_FOUND

\* The then handler, lines 63-65, sets the flag and no state.
ThenCallback(c) == [cycles[c] EXCEPT !.success = TRUE, !.preload = "resolved"]

\* The preload effect without the test of line 78.
ShouldTriggerAlways(ps) == TRUE

\* Line 78: the preload effect calls triggerPreload.
ShouldTrigger(ps) == ps = STATE_PINNING

\* removeMediaGalleryItem has not been called.
NoRemoval == [pc |-> "idle", pinningManager |-> FALSE]

InitPin ==
  /\ pinningManager \in BOOLEAN
  /\ pinned \in BOOLEAN
  /\ failedPins \in [ref : {0}, has : BOOLEAN]
  /\ pinState = NO_PIN_STATE
  /\ mounted = FALSE
  /\ derivDeps = <<FALSE, 0, FALSE>>
  /\ preloadDep = NO_PIN_STATE
  /\ cycles = <<>>
  /\ crashed = FALSE
  /\ changes = 0
  /\ isRemoving = FALSE
  /\ removal = NoRemoval
  /\ managerCalls = <<>>

\* The component as Recent sees it: not there.
InitPinIdle ==
  /\ pinningManager = FALSE
  /\ pinned = FALSE
  /\ failedPins = [ref |-> 0, has |-> FALSE]
  /\ pinState = NO_PIN_STATE
  /\ mounted = FALSE
  /\ derivDeps = <<FALSE, 0, FALSE>>
  /\ preloadDep = NO_PIN_STATE
  /\ cycles = <<>>
  /\ crashed = FALSE
  /\ changes = 0
  /\ isRemoving = FALSE
  /\ removal = NoRemoval
  /\ managerCalls = <<>>

\* The pinning manager prop, or what the manager reports, changes.  A change
\* of the failed set is a new Set object.
InputsChange ==
  /\ ~crashed
  /\ changes < MaxChanges
  /\ \E pm \in BOOLEAN, p \in BOOLEAN, h \in BOOLEAN, fresh \in BOOLEAN :
       /\ pinningManager' = pm
       /\ pinned' = p
       /\ failedPins' = IF fresh THEN [ref |-> failedPins.ref + 1, has |-> h]
                        ELSE failedPins
       /\ fresh \/ h = failedPins.has
       /\ <<pm, p, failedPins'>> # <<pinningManager, pinned, failedPins>>
  /\ changes' = changes + 1
  /\ UNCHANGED <<pinState, mounted, derivDeps, preloadDep, cycles, crashed>>
  /\ UNCHANGED removeVars
  /\ UNCHANGED recentVars

\* A render is due: the first one, or props or state changed since the last.
NeedsRender ==
  \/ ~mounted
  \/ observationDeps # derivDeps
  \/ pinState # preloadDep

\* One render and its effects, in the order of the file: the effect of
\* lines 43-55, then the effect of lines 58-81, each if its dependencies
\* changed.  Both see the pinState of this render; the setPinState of the first
\* shows in the next render.  triggerPreload without a pinning manager throws
\* at line 61 (pinningManager._ipfs).
Render ==
  /\ ~crashed
  /\ NeedsRender
  /\ LET ps == pinState
         trigger == (~mounted \/ ps # preloadDep) /\ ShouldTrigger(ps)
     IN  /\ mounted' = TRUE
         /\ derivDeps' = observationDeps
         /\ preloadDep' = ps
         /\ pinState' = IF observationDepsChanged THEN DerivePinState(ps) ELSE ps
         /\ crashed' = (trigger /\ ~pinningManager)
         /\ cycles' = IF trigger /\ pinningManager THEN Append(cycles, NewCycle)
                      ELSE cycles
  /\ UNCHANGED <<pinningManager, pinned, failedPins, changes>>
  /\ UNCHANGED removeVars
  /\ UNCHANGED recentVars

\* A state setter called after the component is unmounted does nothing.
SetPinState(v) == pinState' = IF crashed THEN pinState ELSE v

\* preload(cid) resolves: lines 63-65.
PreloadResolves(c) ==
  /\ c \in DOMAIN cycles
  /\ cycles[c].preload = "pending"
  /\ cycles' = [cycles EXCEPT ![c] = ThenCallback(c)]
  /\ UNCHANGED <<pinningManager, pinned, failedPins, pinState, mounted, derivDeps,
                 preloadDep, crashed, changes>>
  /\ UNCHANGED removeVars
  /\ UNCHANGED recentVars

\* preload(cid) rejects: lines 66-69.
PreloadRejects(c) ==
  /\ c \in DOMAIN cycles
  /\ cycles[c].preload = "pending"
  /\ cycles' = [cycles EXCEPT ![c].preload = "rejected"]
  /\ SetPinState(CatchCallback(c))
  /\ UNCHANGED <<pinningManager, pinned, failedPins, mounted, derivDeps,
                 preloadDep, crashed, changes>>
  /\ UNCHANGED removeVars
  /\ UNCHANGED recentVars

\* The timer of lines 71-75 fires.  All timers have the same delay, so they
\* fire in the order they were set.
TimerFires(c) ==
  /\ c \in DOMAIN cycles
  /\ cycles[c].timer = "pending"
  /\ \A d \in 1..(c - 1) : cycles[d].timer = "fired"
  /\ cycles' = [cycles EXCEPT ![c].timer = "fired"]
  /\ SetPinState(TimerCallback(c))
  /\ UNCHANGED <<pinningManager, pinned, failedPins, mounted, derivDeps,
                 preloadDep, crashed, changes>>
  /\ UNCHANGED removeVars
  /\ UNCHANGED recentVars

NextPin ==
  \/ InputsChange
  \/ Render
  \/ \E c \in DOMAIN cycles : PreloadResolves(c)
  \/ \E c \in DOMAIN cycles : PreloadRejects(c)
  \/ \E c \in DOMAIN cycles : TimerFires(c)

\* The variables of the pin state and its effects.
trackerVars == <<pinningManager, pinned, failedPins, pinState, mounted, derivDeps,
                 preloadDep, cycles, crashed, changes>>

SetIsRemoving(v) == isRemoving' = IF crashed THEN isRemoving ELSE v

\* Delete is clicked, lines 100-102: the button shows only while isRemoving
\* is false (lines 35, 144-147).  The handler is that of the last render and
\* holds the pinningManager of that render.
RemoveMediaGalleryItem ==
  /\ mounted
  /\ ~crashed
  /\ ~isRemoving
  /\ removal.pc = "idle"
  /\ SetIsRemoving(TRUE)
  /\ managerCalls' = Append(managerCalls, "removeFromMediaGallery")
  /\ removal' = [pc |-> "removeFromMediaGallery", pinningManager |-> derivDeps[1]]
  /\ UNCHANGED trackerVars
  /\ UNCHANGED recentVars

\* removeFromMediaGallery() resolves and line 103 runs: unpinCid(name), or a
\* TypeError without a pinning manager, which rejects the async function.
RemoveFromMediaGalleryResolves ==
  /\ removal.pc = "removeFromMediaGallery"
  /\ IF removal.pinningManager
       THEN /\ managerCalls' = Append(managerCalls, "unpinCid")
            /\ removal' = [removal EXCEPT !.pc = "unpinCid"]
       ELSE /\ managerCalls' = managerCalls
            /\ removal' = [removal EXCEPT !.pc = "rejected"]
  /\ UNCHANGED isRemoving
  /\ UNCHANGED trackerVars
  /\ UNCHANGED recentVars

\* removeFromMediaGallery() rejects: the await of line 102 throws.
RemoveFromMediaGalleryRejects ==
  /\ removal.pc = "removeFromMediaGallery"
  /\ removal' = [removal EXCEPT !.pc = "rejected"]
  /\ UNCHANGED <<isRemoving, managerCalls>>
  /\ UNCHANGED trackerVars
  /\ UNCHANGED recentVars

\* unpinCid(name) resolves: line 104.
UnpinCidResolves ==
  /\ removal.pc = "unpinCid"
  /\ SetIsRemoving(FALSE)
  /\ removal' = [removal EXCEPT !.pc = "done"]
  /\ UNCHANGED managerCalls
  /\ UNCHANGED trackerVars
  /\ UNCHANGED recentVars

\* unpinCid(name) rejects: the await of line 103 throws.
UnpinCidRejects ==
  /\ removal.pc = "unpinCid"
  /\ removal' = [removal EXCEPT !.pc = "rejected"]
  /\ UNCHANGED <<isRemoving, managerCalls>>
  /\ UNCHANGED trackerVars
  /\ UNCHANGED recentVars

NextGallery ==
  \/ NextPin
  \/ RemoveMediaGalleryItem
  \/ RemoveFromMediaGalleryResolves
  \/ RemoveFromMediaGalleryRejects
  \/ UnpinCidResolves
  \/ UnpinCidRejects


(***************************************************************************)
(* Recent                                                                  *)
(***************************************************************************)

\* lib/constants, imported at line 188: the seconds of a week.
SECONDS_IN_WEEK == 604800

\* How many parcels the pages of one run hold in all, and how many pages
\* (values of data) arrive.
MaxParcels == 2
MaxFetches == 2

\* The values Date.now() takes, in milliseconds: just before, at and a second
\* after the deadline of a bid made at time 0.
Clock == <<SECONDS_IN_WEEK * 1000 - 1, SECONDS_IN_WEEK * 1000,
           (SECONDS_IN_WEEK + 1) * 1000>>

NoPendingBid ==
  [present |-> FALSE, contributionRate |-> 0, timestamp |-> 0, forSalePrice |-> 0]

\* What the two reads of a parcel's license contract return.
Reads == [shouldBidPeriodEndEarly : BOOLEAN, isPayerBidActive : BOOLEAN]

\* Lines 287-295 with a contribution rate of 0 taken for a bid.
Step1ZeroIsBid(parcel) ==
  IF ~parcel.pendingBid.present
    THEN [pc |-> "shouldBidPeriodEndEarly", status |-> "Valid",
          forSalePrice |-> parcel.currentBid.forSalePrice, dateNow |-> 0]
  ELSE IF parcel.pendingBid.contributionRate >= 0
    THEN [pc |-> "shouldBidPeriodEndEarly", status |-> "Outstanding Bid",
          forSalePrice |-> parcel.pendingBid.forSalePrice, dateNow |-> 0]
  ELSE [pc |-> "dropped", status |-> "", forSalePrice |-> 0, dateNow |-> 0]

\* Lines 287-295 without the continue of line 294: a negative contribution
\* rate keeps the parcel, as a bid.
Step1NoDrop(parcel) ==
  IF ~parcel.pendingBid.present \/ parcel.pendingBid.contributionRate = 0
    THEN [pc |-> "shouldBidPeriodEndEarly", status |-> "Valid",
          forSalePrice |-> parcel.currentBid.forSalePrice, dateNow |-> 0]
    ELSE [pc |-> "shouldBidPeriodEndEarly", status |-> "Outstanding Bid",
          forSalePrice |-> parcel.pendingBid.forSalePrice, dateNow |-> 0]

\* Lines 287-295: the status and price a parcel starts with, or the continue
\* of line 294 (pc = "dropped": no promise chain is made).  dateNow is the
\* Date.now() that line 302 reads, 0 before it is read.
Step1(parcel) ==
  IF ~parcel.pendingBid.present \/ parcel.pendingBid.contributionRate = 0
    THEN [pc |-> "shouldBidPeriodEndEarly", status |-> "Valid",
          forSalePrice |-> parcel.currentBid.forSalePrice, dateNow |-> 0]
  ELSE IF parcel.pendingBid.contributionRate > 0
    THEN [pc |-> "shouldBidPeriodEndEarly", status |-> "Outstanding Bid",
          forSalePrice |-> parcel.pendingBid.forSalePrice, dateNow |-> 0]
  ELSE [pc |-> "dropped", status |-> "", forSalePrice |-> 0, dateNow |-> 0]

\* Lines 299-310 without the deadline of line 302.
Step2NoDeadline(parcel, st, shouldBidPeriodEndEarly, nowMs) ==
  IF parcel.pendingBid.present /\ parcel.pendingBid.contributionRate > 0
       /\ shouldBidPeriodEndEarly
    THEN [pc |-> "isPayerBidActive", status |-> "Needs Transfer",
          forSalePrice |-> parcel.pendingBid.forSalePrice, dateNow |-> nowMs]
    ELSE [st EXCEPT !.pc = "isPayerBidActive", !.dateNow = nowMs]

\* Lines 299-310 going on to getParcelContent without the isPayerBidActive
\* call of line 310.
Step2SkipsRead(parcel, st, shouldBidPeriodEndEarly, nowMs) ==
  LET deadline == parcel.pendingBid.timestamp + SECONDS_IN_WEEK
      isPastDeadline == deadline * 1000 <= nowMs
  IN  IF parcel.pendingBid.present /\ parcel.pendingBid.contributionRate > 0
           /\ (isPastDeadline \/ shouldBidPeriodEndEarly)
        THEN [pc |-> "getParcelContent", status |-> "Needs Transfer",
              forSalePrice |-> parcel.pendingBid.forSalePrice, dateNow |-> nowMs]
        ELSE [st EXCEPT !.pc = "getParcelContent", !.dateNow = nowMs]

\* Lines 299-310: the callback of shouldBidPeriodEndEarly, run at time nowMs,
\* and the isPayerBidActive call that follows it.
Step2(parcel, st, shouldBidPeriodEndEarly, nowMs) ==
  LET deadline == parcel.pendingBid.timestamp + SECONDS_IN_WEEK
      isPastDeadline == deadline * 1000 <= nowMs
  IN  IF parcel.pendingBid.present /\ parcel.pendingBid.contributionRate > 0
           /\ (isPastDeadline \/ shouldBidPeriodEndEarly)
        THEN [pc |-> "isPayerBidActive", status |-> "Needs Transfer",
              forSalePrice |-> parcel.pendingBid.forSalePrice, dateNow |-> nowMs]
        ELSE [st EXCEPT !.pc = "isPayerBidActive", !.dateNow = nowMs]

\* Lines 311-323 overriding only a Valid status.
Step3OnlyIfValid(st, isPayerBidActive) ==
  IF ~isPayerBidActive /\ st.status = "Valid"
    THEN [st EXCEPT !.pc = "getParcelContent", !.status = "In Foreclosure"]
    ELSE [st EXCEPT !.pc = "getParcelContent"]

\* Lines 311-323: the callback of isPayerBidActive and the getParcelContent
\* call that follows it.
Step3(st, isPayerBidActive) ==
  IF ~isPayerBidActive
    THEN [st EXCEPT !.pc = "getParcelContent", !.status = "In Foreclosure"]
    ELSE [st EXCEPT !.pc = "getParcelContent"]

\* Lines 338-345: the entry pushed to _parcels (its name and center left out).
Entry(parcel, st) ==
  [parcelId |-> parcel.id, createdAtBlock |-> parcel.createdAtBlock,
   status |-> st.status, price |-> st.forSalePrice]

\* The comparator with its test turned around.
CompareAscending(a, b) == IF a.createdAtBlock < b.createdAtBlock THEN -1 ELSE 1

\* The comparator of lines 377-383.
Compare(a, b) == IF a.createdAtBlock > b.createdAtBlock THEN -1 ELSE 1

\* Lines 376-386: the lists [...parcels].sort(compare) can return.  The
\* comparator never returns 0, so for two entries of one block it answers
\* "after" both ways and their order is the engine's choice; where it is
\* consistent (compare(a, b) < 0 < compare(b, a)) a comes before b.
sortParcels(list) ==
  LET n == Len(list)
      perms == {f \in [1..n -> 1..n] : \A i, j \in 1..n : i # j => f[i] # f[j]}
      ordered(s) == \A i, j \in 1..n :
                      i < j => ~(Compare(s[j], s[i]) < 0 /\ Compare(s[i], s[j]) > 0)
  IN  {s \in {[i \in 1..n |-> list[f[i]]] : f \in perms} : ordered(s)}

\* The effect without the test of line 262.
IsEmptyPageNever(page) == FALSE

\* Lines 262-265: an empty page is published at once.
IsEmptyPage(page) == Len(page) = 0

\* The batch the effect makes for a page, lines 267-349: isMounted, _parcels
\* and the promise chain of each parcel after its first call.
NewBatch(page) ==
  [isMounted |-> TRUE,
   page |-> page,
   chain |-> [i \in 1..Len(page) |-> Step1(page[i])],
   collected |-> <<>>,
   outcome |-> "pending"]

\* The shouldBidPeriodEndEarly calls the effect makes for a batch, line 298.
Issued(batch) == Cardinality({i \in DOMAIN batch.chain : batch.chain[i].pc # "dropped"})

\* The parcels of all pages so far.
Fetched ==
  LET RECURSIVE sum(_)
      sum(k) == IF k = 0 THEN 0 ELSE Len(batches[k].page) + sum(k - 1)
  IN  sum(Len(batches))

\* The pages the query of lines 202-230 can return: ordered by createdAtBlock,
\* descending; two parcels can be of one block.
Descending(b) ==
  /\ \A i \in 1..(Len(b) - 1) : b[i] - b[i + 1] \in {0, 1}
  /\ Len(b) > 0 => b[Len(b)] = 1

\* The parcels of a page of SpecRecent: one with no pending bid, one with a
\* positive pending bid and one with a negative one, each with the answers
\* (reads) its license contract gives when it is asked.
ParcelKinds ==
  { [currentBid |-> [forSalePrice |-> 10], pendingBid |-> NoPendingBid,
     reads |-> [shouldBidPeriodEndEarly |-> FALSE, isPayerBidActive |-> TRUE]],
    [currentBid |-> [forSalePrice |-> 10],
     pendingBid |-> [present |-> TRUE, contributionRate |-> 5, timestamp |-> 1,
                     forSalePrice |-> 20],
     reads |-> [shouldBidPeriodEndEarly |-> TRUE, isPayerBidActive |-> FALSE]],
    [currentBid |-> [forSalePrice |-> 10],
     pendingBid |-> [present |-> TRUE, contributionRate |-> -1, timestamp |-> 0,
                     forSalePrice |-> 20],
     reads |-> [shouldBidPeriodEndEarly |-> FALSE, isPayerBidActive |-> TRUE]] }

\* Parcel i of a page, and the pages of n parcels.
Parcel(i, block, kind) ==
  [id |-> i, createdAtBlock |-> block, currentBid |-> kind.currentBid,
   pendingBid |-> kind.pendingBid, reads |-> kind.reads]

PagesOf(n) ==
  {[i \in 1..n |-> Parcel(i, b[i], k[i])] :
     b \in {c \in [1..n -> 1..n] : Descending(c)}, k \in [1..n -> ParcelKinds]}

RecentPages == UNION {PagesOf(n) : n \in 0..MaxParcels}

\* Recent after its first render, with shouldRefetch false.
InitRecent ==
  /\ data = [loaded |-> FALSE, geoWebParcels |-> <<>>]
  /\ parcels = [set |-> FALSE, list |-> <<>>]
  /\ batches = <<>>
  /\ active = 0
  /\ now = 1
  /\ calls = 0
  /\ fetches = 0
  /\ shouldRefetch = FALSE
  /\ refetchDep = [ran |-> TRUE, value |-> FALSE]
  /\ refetches = <<>>
  /\ requests = 0

\* The effect without the cleanup of lines 359-361.
CleanupForgotten == batches

\* The cleanup of lines 359-361, run before the effect runs again.
Cleanup ==
  IF active = 0 THEN batches ELSE [batches EXCEPT ![active].isMounted = FALSE]

\* A page arrives and the effect of lines 257-362 runs: the cleanup of the run
\* before, then an empty page is published (line 263), any other starts a
\* batch with the first call of every parcel not dropped.
DataArrives(page) ==
  /\ fetches < MaxFetches
  /\ Fetched + Len(page) <= MaxParcels
  /\ fetches' = fetches + 1
  /\ data' = [loaded |-> TRUE, geoWebParcels |-> page]
  /\ IF IsEmptyPage(page)
       THEN /\ parcels' = [set |-> TRUE, list |-> <<>>]
            /\ batches' = Cleanup
            /\ active' = 0
            /\ calls' = calls
       ELSE /\ parcels' = parcels
            /\ batches' = Append(Cleanup, NewBatch(page))
            /\ active' = Len(batches) + 1
            /\ calls' = calls + Issued(NewBatch(page))
  /\ UNCHANGED now
  /\ UNCHANGED refetchVars
  /\ UNCHANGED pinVars

\* shouldBidPeriodEndEarly() of parcel i of batch b resolves.
ShouldBidPeriodEndEarlyResolves(b, i) ==
  /\ b \in DOMAIN batches
  /\ i \in DOMAIN batches[b].chain
  /\ batches[b].chain[i].pc = "shouldBidPeriodEndEarly"
  /\ batches' = [batches EXCEPT ![b].chain[i] =
       Step2(batches[b].page[i], @,
             batches[b].page[i].reads.shouldBidPeriodEndEarly, Clock[now])]
  /\ calls' = calls + 1
  /\ UNCHANGED <<data, parcels, active, now, fetches>>
  /\ UNCHANGED refetchVars
  /\ UNCHANGED pinVars

\* isPayerBidActive() of parcel i of batch b resolves.
IsPayerBidActiveResolves(b, i) ==
  /\ b \in DOMAIN batches
  /\ i \in DOMAIN batches[b].chain
  /\ batches[b].chain[i].pc = "isPayerBidActive"
  /\ batches' = [batches EXCEPT ![b].chain[i] =
       Step3(@, batches[b].page[i].reads.isPayerBidActive)]
  /\ calls' = calls + 1
  /\ UNCHANGED <<data, parcels, active, now, fetches>>
  /\ UNCHANGED refetchVars
  /\ UNCHANGED pinVars

\* getParcelContent() of parcel i of batch b resolves: lines 324-346.
GetParcelContentResolves(b, i) ==
  /\ b \in DOMAIN batches
  /\ i \in DOMAIN batches[b].chain
  /\ batches[b].chain[i].pc = "getParcelContent"
  /\ batches' = [batches EXCEPT
       ![b].chain[i].pc = "done",
       ![b].collected = Append(@, Entry(batches[b].page[i], batches[b].chain[i]))]
  /\ UNCHANGED <<data, parcels, active, now, calls, fetches>>
  /\ UNCHANGED refetchVars
  /\ UNCHANGED pinVars

\* The call parcel i of batch b waits for rejects: the rest of its chain is
\* skipped and the chain is rejected.
ReadRejects(b, i) ==
  /\ b \in DOMAIN batches
  /\ i \in DOMAIN batches[b].chain
  /\ batches[b].chain[i].pc \in
       {"shouldBidPeriodEndEarly", "isPayerBidActive", "getParcelContent"}
  /\ batches' = [batches EXCEPT ![b].chain[i].pc = "rejected"]
  /\ UNCHANGED <<data, parcels, active, now, calls, fetches>>
  /\ UNCHANGED refetchVars
  /\ UNCHANGED pinVars

\* Promise.allSettled in the place of Promise.all: a rejected chain counts.
AllSettled(batch) ==
  \A i \in DOMAIN batch.chain : batch.chain[i].pc \in {"dropped", "done", "rejected"}

\* Promise.any in the place of Promise.all: one fulfilled chain is enough.
AnyFulfilled(batch) ==
  \E i \in DOMAIN batch.chain : batch.chain[i].pc \in {"dropped", "done"}

\* Lines 351-357: every chain of batch b is fulfilled and the callback of
\* Promise.all runs.  With a chain rejected it never runs.
AllFulfilled(batch) ==
  \A i \in DOMAIN batch.chain : batch.chain[i].pc \in {"dropped", "done"}

PromiseAllResolves(b) ==
  /\ b \in DOMAIN batches
  /\ batches[b].outcome = "pending"
  /\ AllFulfilled(batches[b])
  /\ IF batches[b].isMounted
       THEN /\ \E sorted \in sortParcels(batches[b].collected) :
                 parcels' = [set |-> TRUE, list |-> sorted]
            /\ batches' = [batches EXCEPT ![b].outcome = "published"]
       ELSE /\ parcels' = parcels
            /\ batches' = [batches EXCEPT ![b].outcome = "discarded"]
  /\ UNCHANGED <<data, active, now, calls, fetches>>
  /\ UNCHANGED refetchVars
  /\ UNCHANGED pinVars

\* Time passes.
Tick ==
  /\ now < Len(Clock)
  /\ now' = now + 1
  /\ UNCHANGED <<data, parcels, batches, active, calls, fetches>>
  /\ UNCHANGED refetchVars
  /\ UNCHANGED pinVars

NextRecent ==
  \/ \E page \in RecentPages : DataArrives(page)
  \/ \E b \in DOMAIN batches : \E i \in DOMAIN batches[b].chain :
       ShouldBidPeriodEndEarlyResolves(b, i)
  \/ \E b \in DOMAIN batches : \E i \in DOMAIN batches[b].chain :
       IsPayerBidActiveResolves(b, i)
  \/ \E b \in DOMAIN batches : \E i \in DOMAIN batches[b].chain :
       GetParcelContentResolves(b, i)
  \/ \E b \in DOMAIN batches : \E i \in DOMAIN batches[b].chain :
       ReadRejects(b, i)
  \/ \E b \in DOMAIN batches : PromiseAllResolves(b)

\* How many times the parent sets shouldRefetch.
MaxRequests == 2

\* The variables of the page and its batches.
batchVars == <<data, parcels, batches, active, now, calls, fetches>>

\* The parent calls setShouldRefetch(true).
RequestRefetch ==
  /\ requests < MaxRequests
  /\ requests' = requests + 1
  /\ shouldRefetch' = TRUE
  /\ UNCHANGED <<refetchDep, refetches>>
  /\ UNCHANGED batchVars
  /\ UNCHANGED pinVars

\* The effect without the test of line 365.
RefetchCallsAlways(flag) == <<[skip |-> 0]>>

\* Lines 365-371: the refetch calls the effect makes, given the shouldRefetch
\* it was rendered with.
RefetchCalls(flag) == IF flag THEN <<[skip |-> 0]>> ELSE <<>>

\* A render with shouldRefetch changed, or the first one, and the effect of
\* lines 364-374: with the flag true one refetch and setShouldRefetch(false).
\* The effect of lines 257-362 does not run here: data is as it was, and at
\* the first render there is none (line 258).
RefetchEffect ==
  /\ ~refetchDep.ran \/ refetchDep.value # shouldRefetch
  /\ refetchDep' = [ran |-> TRUE, value |-> shouldRefetch]
  /\ refetches' = refetches \o RefetchCalls(shouldRefetch)
  /\ shouldRefetch' = IF shouldRefetch THEN FALSE ELSE shouldRefetch
  /\ UNCHANGED requests
  /\ UNCHANGED batchVars
  /\ UNCHANGED pinVars

\* The pages a refetch brings: none or one parcel.
RefetchPages == {<<>>} \cup {<<Parcel(1, 1, k)>> : k \in ParcelKinds}

NextRefetch ==
  \/ RequestRefetch
  \/ RefetchEffect
  \/ \E page \in RefetchPages : DataArrives(page)
  \/ \E b \in DOMAIN batches : \E i \in DOMAIN batches[b].chain :
       ShouldBidPeriodEndEarlyResolves(b, i)
  \/ \E b \in DOMAIN batches : \E i \in DOMAIN batches[b].chain :
       IsPayerBidActiveResolves(b, i)
  \/ \E b \in DOMAIN batches : \E i \in DOMAIN batches[b].chain :
       GetParcelContentResolves(b, i)
  \/ \E b \in DOMAIN batches : \E i \in DOMAIN batches[b].chain :
       ReadRejects(b, i)
  \/ \E b \in DOMAIN batches : PromiseAllResolves(b)

\* Recent before its first render, with the shouldRefetch the parent gives it.
InitRefetch ==
  /\ InitPinIdle
  /\ data = [loaded |-> FALSE, geoWebParcels |-> <<>>]
  /\ parcels = [set |-> FALSE, list |-> <<>>]
  /\ batches = <<>>
  /\ active = 0
  /\ now = 1
  /\ calls = 0
  /\ fetches = 0
  /\ shouldRefetch \in BOOLEAN
  /\ refetchDep = [ran |-> FALSE, value |-> FALSE]
  /\ refetches = <<>>
  /\ requests = 0

SpecRefetch == InitRefetch /\ [][NextRefetch]_vars

\* GalleryDisplayItem before its first render; Recent is not there.
Init == InitPin /\ InitRecent

Spec == Init /\ [][NextPin]_vars

\* GalleryDisplayItem with its Delete button.
SpecGallery == Init /\ [][NextGallery]_vars

\* One parcel, of every bid shape, with every answer of its license contract,
\* resolved while time passes.
ResolverPages ==
  {<<[id |-> 1, createdAtBlock |-> 1, currentBid |-> [forSalePrice |-> 10],
      pendingBid |-> bid, reads |-> r]>> :
     bid \in {NoPendingBid} \cup
              [present : {TRUE}, contributionRate : {-1, 0, 5}, timestamp : {0, 1},
               forSalePrice : {20}],
     r \in Reads}

FirstPageArrives ==
  /\ fetches = 0
  /\ \E page \in ResolverPages : DataArrives(page)

NextResolver ==
  \/ FirstPageArrives
  \/ \E b \in DOMAIN batches : \E i \in DOMAIN batches[b].chain :
       ShouldBidPeriodEndEarlyResolves(b, i)
  \/ \E b \in DOMAIN batches : \E i \in DOMAIN batches[b].chain :
       IsPayerBidActiveResolves(b, i)
  \/ \E b \in DOMAIN batches : \E i \in DOMAIN batches[b].chain :
       GetParcelContentResolves(b, i)
  \/ \E b \in DOMAIN batches : \E i \in DOMAIN batches[b].chain :
       ReadRejects(b, i)
  \/ \E b \in DOMAIN batches : PromiseAllResolves(b)
  \/ Tick

\* Recent before its data arrives; GalleryDisplayItem is not there.
InitOfRecent == InitRecent /\ InitPinIdle

SpecResolver == InitOfRecent /\ [][NextResolver]_vars

SpecRecent == InitOfRecent /\ [][NextRecent]_vars

\* The scheduling the fairness rests on: React runs a render that is due, and
\* the event loop fires a timer that is set.
FairSpec ==
  /\ Spec
  /\ WF_vars(Render)
  /\ WF_vars(\E c \in DOMAIN cycles : TimerFires(c))

(***************************************************************************)
(* GalleryDisplayItem: the claims                                          *)
(***************************************************************************)

\* The effect of lines 43-55 has run for the props as they are now.
Observed == mounted /\ ~crashed /\ derivDeps = observationDeps

\* C1: whenever the pinning manager is set, reports the item pinned and the
\* observation effect has run for these props, pinState is Pinned, whether or
\* not the item is in the failed set and whatever earlier preload or timer is
\* outstanding or completes.
C1_PinnedTakesPriority ==
  (Observed /\ pinningManager /\ isPinned) => pinState = STATE_PINNED

\* C2: whenever the item is not pinned and is in the failed set and the
\* observation effect has run for these props, pinState is Failed: nothing
\* the tracker does (a preload completing, a timer firing) moves it away.
C2_FailedStaysFailed ==
  (Observed /\ pinningManager /\ ~isPinned /\ failedPins.has)
    => pinState = STATE_FAILED

\* The timer of cycle c fires in this step.
TimerFiresIn(c) ==
  /\ c \in DOMAIN cycles
  /\ cycles[c].timer = "pending"
  /\ cycles'[c].timer = "fired"

\* The preload of cycle c is still neither resolved nor rejected, and the props
\* are those the cycle started with.
Unconfirmed(c) ==
  /\ c \in DOMAIN cycles
  /\ cycles[c].preload = "pending"
  /\ cycles[c].gen = changes
  /\ ~crashed

\* C3: an item observed as neither pinned nor failed is Pinning; with its
\* preload neither resolved nor rejected, the timer's firing makes pinState
\* NotFound; pinState is not NotFound before a timer has fired (or a preload
\* was rejected); and under fair scheduling a cycle whose preload stays
\* unconfirmed, with the props unchanged, ends in NotFound.
C3_TimeoutLiveness ==
  /\ [](Observed /\ pinningManager /\ ~isPinned /\ ~failedPins.has /\ cycles = <<>>
          => pinState = STATE_PINNING)
  /\ [][\A c \in DOMAIN cycles :
          (TimerFiresIn(c) /\ cycles[c].preload = "pending" /\ ~crashed)
            => pinState' = STATE_NOT_FOUND]_vars
  /\ [](pinState = STATE_NOT_FOUND
          => \E c \in DOMAIN cycles :
               cycles[c].timer = "fired" \/ cycles[c].preload = "rejected")
  /\ \A c \in 1..(MaxChanges + 2) :
       Unconfirmed(c) ~> (pinState = STATE_NOT_FOUND \/ ~Unconfirmed(c))

\* A first cycle, its preload never settled and the props unchanged, that the
\* timer ended in NotFound.
C3_Witness ==
  /\ Len(cycles) = 1
  /\ Unconfirmed(1)
  /\ cycles[1].timer = "fired"
  /\ pinState = STATE_NOT_FOUND

\* C4: when the preload of a cycle has resolved, the firing of that cycle's
\* timer leaves pinState as it is, and the resolution itself sets the success
\* flag and leaves pinState as it is.
C4_ResolvedPreloadDisarmsTimer ==
  [][\A c \in DOMAIN cycles :
       /\ (TimerFiresIn(c) /\ cycles[c].preload = "resolved")
            => pinState' = pinState
       /\ (cycles[c].preload = "pending" /\ cycles'[c].preload = "resolved")
            => (pinState' = pinState /\ cycles'[c].success)]_vars

\* A first cycle whose preload resolved and whose timer has fired since, the
\* props unchanged: the item is still Pinning.
C4_Witness ==
  /\ Len(cycles) = 1
  /\ cycles[1].preload = "resolved"
  /\ cycles[1].timer = "fired"
  /\ cycles[1].gen = changes
  /\ pinState = STATE_PINNING

\* C5: when the preload of a cycle has rejected, the later firing of that
\* cycle's timer changes no state.
C5_RejectedPreloadDisarmsTimer ==
  [][\A c \in DOMAIN cycles :
       (TimerFiresIn(c) /\ cycles[c].preload = "rejected")
         => pinState' = pinState]_vars

(***************************************************************************)
(* Recent: the claims                                                      *)
(***************************************************************************)

\* The chains that have run to their end, and the entry each has pushed.
Resolved == {x \in {<<b, i>> : b \in DOMAIN batches, i \in 1..MaxParcels} :
               /\ x[2] \in DOMAIN batches[x[1]].chain
               /\ batches[x[1]].chain[x[2]].pc = "done"}

ParcelOf(x) == batches[x[1]].page[x[2]]

ChainOf(x) == batches[x[1]].chain[x[2]]

EntriesOf(x) ==
  {batches[x[1]].collected[k] : k \in {j \in DOMAIN batches[x[1]].collected :
     batches[x[1]].collected[j].parcelId = ParcelOf(x).id}}

NoActivePendingBid(parcel) ==
  ~parcel.pendingBid.present \/ parcel.pendingBid.contributionRate = 0

PositivePendingBid(parcel) ==
  parcel.pendingBid.present /\ parcel.pendingBid.contributionRate > 0

\* C6: a parcel with no pending bid, or a pending bid of contribution rate 0,
\* whose isPayerBidActive is true, is never dropped, is Valid at the price of
\* its current bid at every step of its chain, and is pushed so, whatever
\* shouldBidPeriodEndEarly returns and whatever the pending bid's timestamp.
C6_NoActivePendingBidIsValid ==
  \A b \in DOMAIN batches : \A i \in DOMAIN batches[b].chain :
    LET parcel == batches[b].page[i]
        st == batches[b].chain[i]
    IN  (NoActivePendingBid(parcel) /\ parcel.reads.isPayerBidActive)
          => /\ st.pc # "dropped"
             /\ st.status = "Valid"
             /\ st.forSalePrice = parcel.currentBid.forSalePrice
             /\ st.pc = "done" =>
                  EntriesOf(<<b, i>>) =
                    {[parcelId |-> parcel.id, createdAtBlock |-> parcel.createdAtBlock,
                      status |-> "Valid", price |-> parcel.currentBid.forSalePrice]}

\* A pending bid of rate 0, made at time 0 and read after its deadline, with
\* shouldBidPeriodEndEarly true: resolved as Valid.
C6_Witness ==
  \E x \in Resolved :
    /\ ParcelOf(x).pendingBid.present
    /\ ParcelOf(x).pendingBid.contributionRate = 0
    /\ ParcelOf(x).pendingBid.timestamp = 0
    /\ ParcelOf(x).reads.shouldBidPeriodEndEarly
    /\ ParcelOf(x).reads.isPayerBidActive
    /\ ChainOf(x).dateNow = Clock[3]
    /\ \E e \in EntriesOf(x) : e.status = "Valid" /\ e.price = 10

\* The status of a positive pending bid whose shouldBidPeriodEndEarly callback
\* runs at time nowMs.
ExpectedBidStatus(parcel, nowMs) ==
  IF parcel.reads.shouldBidPeriodEndEarly
       \/ (parcel.pendingBid.timestamp + SECONDS_IN_WEEK) * 1000 <= nowMs
    THEN "Needs Transfer"
    ELSE "Outstanding Bid"

\* C7: a parcel with a pending bid of positive contribution rate whose
\* isPayerBidActive is true has the pending bid's price, and once line 302 has
\* read the time its status is Needs Transfer if shouldBidPeriodEndEarly is
\* true or the bid's timestamp plus a week is not later than that time, and
\* Outstanding Bid otherwise; it is pushed so.
C7_PositivePendingBid ==
  \A b \in DOMAIN batches : \A i \in DOMAIN batches[b].chain :
    LET parcel == batches[b].page[i]
        st == batches[b].chain[i]
    IN  (PositivePendingBid(parcel) /\ parcel.reads.isPayerBidActive)
          => /\ st.pc # "dropped"
             /\ st.forSalePrice = parcel.pendingBid.forSalePrice
             /\ st.pc = "shouldBidPeriodEndEarly" => st.status = "Outstanding Bid"
             /\ st.pc \in {"isPayerBidActive", "getParcelContent", "done"} =>
                  st.status = ExpectedBidStatus(parcel, st.dateNow)
             /\ st.pc = "done" =>
                  EntriesOf(<<b, i>>) =
                    {[parcelId |-> parcel.id, createdAtBlock |-> parcel.createdAtBlock,
                      status |-> ExpectedBidStatus(parcel, st.dateNow),
                      price |-> parcel.pendingBid.forSalePrice]}

\* A positive pending bid read at the very millisecond of its deadline, with
\* shouldBidPeriodEndEarly false: resolved as Needs Transfer.
C7_Witness ==
  \E x \in Resolved :
    /\ PositivePendingBid(ParcelOf(x))
    /\ ~ParcelOf(x).reads.shouldBidPeriodEndEarly
    /\ ParcelOf(x).reads.isPayerBidActive
    /\ ChainOf(x).dateNow = (ParcelOf(x).pendingBid.timestamp + SECONDS_IN_WEEK) * 1000
    /\ \E e \in EntriesOf(x) : e.status = "Needs Transfer" /\ e.price = 20

\* C8: once isPayerBidActive has returned false, the parcel's status is In
\* Foreclosure, whatever its bid, and it is pushed and published so.
C8_ForeclosureOverrides ==
  /\ \A b \in DOMAIN batches : \A i \in DOMAIN batches[b].chain :
       LET parcel == batches[b].page[i]
           st == batches[b].chain[i]
       IN  (st.pc \in {"getParcelContent", "done"} /\ ~parcel.reads.isPayerBidActive)
             => /\ st.status = "In Foreclosure"
                /\ st.pc = "done" =>
                     \A e \in EntriesOf(<<b, i>>) : e.status = "In Foreclosure"
  /\ \A b \in DOMAIN batches :
       (batches[b].outcome = "published" /\ active = b) =>
         \A k \in DOMAIN parcels.list :
           \A i \in DOMAIN batches[b].page :
             (batches[b].page[i].id = parcels.list[k].parcelId
                /\ ~batches[b].page[i].reads.isPayerBidActive)
               => parcels.list[k].status = "In Foreclosure"

\* A positive pending bid that shouldBidPeriodEndEarly made Needs Transfer,
\* published as In Foreclosure at the pending bid's price.
C8_Witness ==
  \E x \in Resolved :
    /\ PositivePendingBid(ParcelOf(x))
    /\ ParcelOf(x).reads.shouldBidPeriodEndEarly
    /\ ~ParcelOf(x).reads.isPayerBidActive
    /\ batches[x[1]].outcome = "published"
    /\ parcels.list = <<[parcelId |-> ParcelOf(x).id,
                         createdAtBlock |-> ParcelOf(x).createdAtBlock,
                         status |-> "In Foreclosure",
                         price |-> ParcelOf(x).pendingBid.forSalePrice]>>

\* C9: when the page that arrives is empty, the empty list is published in
\* that very step, no batch is started and no call is made.
C9_EmptyPage ==
  [][(fetches' = fetches + 1 /\ Len(data'.geoWebParcels) = 0)
       => /\ parcels' = [set |-> TRUE, list |-> <<>>]
          /\ calls' = calls
          /\ batches' = Cleanup]_vars

\* An empty page has arrived while the batch of an earlier page is still
\* outstanding: the empty list is published and no call was made since.
C9_Witness ==
  /\ data.loaded
  /\ Len(data.geoWebParcels) = 0
  /\ parcels = [set |-> TRUE, list |-> <<>>]
  /\ Len(batches) = 1
  /\ batches[1].outcome = "pending"
  /\ ~batches[1].isMounted
  /\ calls = Issued(batches[1])
  /\ calls > 0

\* C10: every published list is in descending order of createdAtBlock.
C10_PublishedSorted ==
  parcels.set =>
    \A i, j \in DOMAIN parcels.list :
      i < j => parcels.list[i].createdAtBlock >= parcels.list[j].createdAtBlock

\* Two parcels of different blocks whose chains ended in ascending order,
\* published in descending order.
C10_Witness ==
  \E b \in DOMAIN batches :
    /\ batches[b].outcome = "published"
    /\ Len(batches[b].collected) = 2
    /\ batches[b].collected[1].createdAtBlock < batches[b].collected[2].createdAtBlock
    /\ parcels.list = <<batches[b].collected[2], batches[b].collected[1]>>

NegativePendingBid(parcel) ==
  parcel.pendingBid.present /\ parcel.pendingBid.contributionRate < 0

\* The parcels of all batches that line 294 does not drop.
Kept ==
  {x \in {<<b, i>> : b \in DOMAIN batches, i \in 1..MaxParcels} :
     /\ x[2] \in DOMAIN batches[x[1]].page
     /\ ~NegativePendingBid(ParcelOf(x))}

\* C11: a parcel whose pending bid has a negative contribution rate is dropped
\* and that is no error: it has no promise chain, so no call is made for it
\* (each of the other parcels accounts for at most three), no entry of it is
\* collected or published, and Promise.all waits only for the other parcels
\* of the batch.
C11_NegativeRateDropped ==
  /\ calls <= 3 * Cardinality(Kept)
  /\ \A b \in DOMAIN batches :
       /\ \A i \in DOMAIN batches[b].page :
            NegativePendingBid(batches[b].page[i]) =>
              /\ batches[b].chain[i].pc = "dropped"
              /\ EntriesOf(<<b, i>>) = {}
              /\ (batches[b].outcome = "published" /\ active = b) =>
                   \A k \in DOMAIN parcels.list :
                     parcels.list[k].parcelId # batches[b].page[i].id
       /\ (\A i \in DOMAIN batches[b].page :
             NegativePendingBid(batches[b].page[i]) \/ batches[b].chain[i].pc = "done")
            => AllFulfilled(batches[b])

\* A page of a dropped parcel and another one: the three calls of the other
\* were made and the list published holds the other alone.
C11_Witness ==
  \E b \in DOMAIN batches :
    /\ Len(batches[b].page) = 2
    /\ NegativePendingBid(batches[b].page[1])
    /\ ~NegativePendingBid(batches[b].page[2])
    /\ batches[b].outcome = "published"
    /\ calls = 3
    /\ Len(parcels.list) = 1
    /\ parcels.list[1].parcelId = batches[b].page[2].id

\* C12: the callback of Promise.all of a batch that a later page has superseded
\* leaves the published list as it is, and the list changes only when an
\* empty page arrives or when the batch of the latest page completes, to the
\* sorted entries of that batch alone.
C12_StaleBatchDiscarded ==
  [][/\ \A b \in DOMAIN batches :
          (batches[b].outcome = "pending" /\ batches'[b].outcome # "pending"
             /\ b # active)
            => /\ parcels' = parcels
               /\ batches'[b].outcome = "discarded"
     /\ parcels' # parcels =>
          \/ /\ fetches' = fetches + 1
             /\ parcels' = [set |-> TRUE, list |-> <<>>]
          \/ /\ active \in DOMAIN batches
             /\ batches[active].outcome = "pending"
             /\ batches'[active].outcome = "published"
             /\ parcels'.list \in sortParcels(batches[active].collected)]_vars

\* Two pages of one parcel each: the batch of the first completed after the
\* second page had arrived and was discarded, the list is that of the second.
C12_Witness ==
  /\ Len(batches) = 2
  /\ batches[1].outcome = "discarded"
  /\ batches[2].outcome = "published"
  /\ Len(batches[1].collected) = 1
  /\ batches[1].collected # batches[2].collected
  /\ parcels = [set |-> TRUE, list |-> batches[2].collected]

\* C16: a batch one of whose chains is rejected publishes nothing: the
\* callback of its Promise.all never runs, and in every step that leaves the
\* batch with a rejected chain the published list changes only by an empty
\* page or by another batch, however far the other chains of the batch got.
C16_AllOrNothing ==
  [][\A b \in DOMAIN batches' :
       (\E i \in DOMAIN batches'[b].chain : batches'[b].chain[i].pc = "rejected")
         => /\ batches'[b].outcome = "pending"
            /\ parcels' # parcels =>
                 \/ fetches' = fetches + 1
                 \/ \E c \in DOMAIN batches :
                      c # b /\ batches'[c].outcome # batches[c].outcome]_vars

\* A batch of two parcels: the chain of one is rejected, the other's is
\* fulfilled and collected, and no list has been published.
C16_Witness ==
  \E b \in DOMAIN batches :
    /\ active = b
    /\ \E i, j \in DOMAIN batches[b].chain :
         /\ batches[b].chain[i].pc = "rejected"
         /\ batches[b].chain[j].pc = "done"
    /\ Len(batches[b].collected) = 1
    /\ batches[b].outcome = "pending"
    /\ ~parcels.set

\* The steps of a promise chain, lines 297-349: each call is made by the
\* callback of the call before.
ChainSteps ==
  {<<"shouldBidPeriodEndEarly", "isPayerBidActive">>,
   <<"isPayerBidActive", "getParcelContent">>,
   <<"getParcelContent", "done">>,
   <<"shouldBidPeriodEndEarly", "rejected">>,
   <<"isPayerBidActive", "rejected">>,
   <<"getParcelContent", "rejected">>}

\* The status and the price of a parcel not dropped, from the parcel, the
\* answers of its license contract and the time line 302 read.
ExpectedStatus(parcel, nowMs) ==
  IF ~parcel.reads.isPayerBidActive THEN "In Foreclosure"
  ELSE IF NoActivePendingBid(parcel) THEN "Valid"
  ELSE ExpectedBidStatus(parcel, nowMs)

ExpectedPrice(parcel) ==
  IF PositivePendingBid(parcel) THEN parcel.pendingBid.forSalePrice
  ELSE parcel.currentBid.forSalePrice

\* C17: the chain of a parcel moves one call at a time, shouldBidPeriodEndEarly
\* then isPayerBidActive then getParcelContent, each call made when the one
\* before has resolved, and only one chain moves in a step; however the chains
\* of the parcels of all batches interleave, the entry of a parcel has the
\* status and the price that the parcel, its contract's answers and the time
\* read at line 302 give.
C17_ChainSequenced ==
  /\ [][\A b \in DOMAIN batches : \A i \in DOMAIN batches[b].chain :
          LET from == batches[b].chain[i].pc
              to == batches'[b].chain[i].pc
          IN  from # to =>
                /\ <<from, to>> \in ChainSteps
                /\ calls' = (IF to \in {"isPayerBidActive", "getParcelContent"}
                               THEN calls + 1 ELSE calls)
                /\ \A c \in DOMAIN batches : \A j \in DOMAIN batches[c].chain :
                     <<c, j>> # <<b, i>> => batches'[c].chain[j] = batches[c].chain[j]]_vars
  /\ [](\A x \in Resolved :
          /\ Cardinality(EntriesOf(x)) = 1
          /\ \A e \in EntriesOf(x) :
               /\ e.status = ExpectedStatus(ParcelOf(x), ChainOf(x).dateNow)
               /\ e.price = ExpectedPrice(ParcelOf(x)))

\* Two parcels of one batch: the chain of the second has ended while that of
\* the first still waits for its second call.
C17_Witness ==
  \E b \in DOMAIN batches :
    /\ Len(batches[b].page) = 2
    /\ batches[b].chain[1].pc = "isPayerBidActive"
    /\ batches[b].chain[2].pc = "done"
    /\ Len(batches[b].collected) = 1
    /\ batches[b].collected[1].parcelId = batches[b].page[2].id

StatusValues == {"Valid", "Outstanding Bid", "Needs Transfer", "In Foreclosure"}

\* C20: a list is published from a batch only when every chain of it has been
\* fulfilled, and it then holds one entry for each parcel not dropped, none
\* for a dropped one and no other, each with one of the four statuses.
C20_PublishedComplete ==
  \A b \in DOMAIN batches :
    batches[b].outcome = "published" =>
      /\ \A i \in DOMAIN batches[b].chain :
           batches[b].chain[i].pc =
             IF NegativePendingBid(batches[b].page[i]) THEN "dropped" ELSE "done"
      /\ Len(batches[b].collected) = Issued(batches[b])
      /\ \A i \in DOMAIN batches[b].page :
           Cardinality(EntriesOf(<<b, i>>)) =
             IF NegativePendingBid(batches[b].page[i]) THEN 0 ELSE 1
      /\ active = b =>
           /\ parcels.set
           /\ parcels.list \in sortParcels(batches[b].collected)
           /\ \A k \in DOMAIN parcels.list : parcels.list[k].status \in StatusValues

\* Both parcels of a page were kept and the list published has the two.
C20_Witness ==
  \E b \in DOMAIN batches :
    /\ batches[b].outcome = "published"
    /\ active = b
    /\ Issued(batches[b]) = 2
    /\ Len(parcels.list) = 2
    /\ parcels.list[1].parcelId # parcels.list[2].parcelId

\* A render sees Pinning and the render before saw another state (or there
\* was none): the preload effect runs with Pinning.
EntersPinning ==
  /\ preloadDep # STATE_PINNING
  /\ preloadDep' = STATE_PINNING

FreshCycle(cycle) ==
  /\ cycle.success = FALSE
  /\ cycle.preload = "pending"
  /\ cycle.timer = "pending"

\* C14: every render that enters Pinning from another state starts a race of
\* its own: one new cycle, its preload and its timer pending and its success
\* flag false, the cycles before untouched; and a preload that resolves sets
\* the flag of its own cycle only.
C14_ReentryStartsNewRace ==
  [][/\ EntersPinning =>
          /\ Len(cycles') = Len(cycles) + 1
          /\ FreshCycle(cycles'[Len(cycles')])
          /\ \A c \in DOMAIN cycles : cycles'[c] = cycles[c]
     /\ \A c \in DOMAIN cycles :
          cycles'[c].success # cycles[c].success =>
            \A d \in DOMAIN cycles : d # c => cycles'[d] = cycles[d]]_vars

\* The timer of cycle c fires, or its preload rejects, in this step.
PreloadRejectsIn(c) ==
  /\ c \in DOMAIN cycles
  /\ cycles[c].preload = "pending"
  /\ cycles'[c].preload = "rejected"

\* Cycle c is superseded: a later cycle has started, or the observation effect
\* has taken pinState out of Pinning.
Superseded(c) ==
  \/ c < Len(cycles)
  \/ pinState \in {STATE_PINNED, STATE_FAILED}

\* C15: the timer or the rejected preload of a superseded cycle leaves
\* pinState as it is.
C15_NoStaleProbeResult ==
  [][\A c \in DOMAIN cycles :
       (Superseded(c) /\ (TimerFiresIn(c) \/ PreloadRejectsIn(c)))
         => pinState' = pinState]_vars

\* C18: a render that enters Pinning with the pinning manager set starts one
\* cycle (one preload, one timer); no other step starts one: not a render
\* that sees Pinning again after the observation effect re-derived it, not a
\* render of another state, and not a render without a pinning manager, where
\* triggerPreload throws at line 61 before the preload and the timer.
C18_OnePreloadPerEntry ==
  [][/\ (EntersPinning /\ pinningManager) => Len(cycles') = Len(cycles) + 1
     /\ Len(cycles') # Len(cycles) =>
          /\ EntersPinning
          /\ pinState = STATE_PINNING
          /\ pinningManager
          /\ Len(cycles') = Len(cycles) + 1
     /\ (preloadDep = STATE_PINNING /\ pinState = STATE_PINNING
           /\ derivDeps' # derivDeps /\ pinState' = STATE_PINNING)
          => cycles' = cycles]_vars

\* The failed set was replaced after the cycle had started and the
\* observation effect derived Pinning again: there is still one cycle.
C18_Witness ==
  /\ Observed
  /\ pinningManager
  /\ pinState = STATE_PINNING
  /\ preloadDep = STATE_PINNING
  /\ Len(cycles) = 1
  /\ cycles[1].gen = 0
  /\ changes = 1
  /\ failedPins.ref = 1

\* C19: removeMediaGalleryItem calls unpinCid(name) before it calls
\* removeFromMediaGallery(), and isRemoving is true exactly while the action
\* runs: from the click until its last call has resolved or rejected.
C19_UnpinBeforeRemoval ==
  /\ \A k \in DOMAIN managerCalls :
       managerCalls[k] = "removeFromMediaGallery" =>
         \E j \in 1..(k - 1) : managerCalls[j] = "unpinCid"
  /\ ~crashed =>
       (isRemoving <=> removal.pc \in {"removeFromMediaGallery", "unpinCid"})

\* The effect of lines 364-374 runs in this step and sees the flag true.
ObservedTrue ==
  /\ refetchDep' # refetchDep
  /\ refetchDep'.value

\* C13: when the refetch effect runs with shouldRefetch true it makes one
\* refetch call, with skip 0, and leaves the flag false; no other step makes
\* a refetch call, so none is made while the flag is false and none after a
\* refetch before the parent has set the flag again: the calls are never more
\* than the times the flag was true at the first render or set by the parent.
C13_RefetchOncePerRequest ==
  /\ [][/\ ObservedTrue =>
             /\ refetches' = Append(refetches, [skip |-> 0])
             /\ shouldRefetch
             /\ ~shouldRefetch'
        /\ refetches' # refetches => ObservedTrue
        /\ (shouldRefetch' /\ ~shouldRefetch) => requests' = requests + 1]_vars
  /\ [](Len(refetches) <= requests + 1)
  /\ [](\A k \in DOMAIN refetches : refetches[k].skip = 0)

\* The flag was set twice and each time the effect made one refetch and
\* cleared it; the effect has run again with the flag false and made none.
C13_Witness ==
  /\ requests = 2
  /\ Len(refetches) = 2
  /\ ~shouldRefetch
  /\ refetchDep = [ran |-> TRUE, value |-> FALSE]

====
